---- MODULE Spec2Model ----
(***************************************************************************)
(* Model of the Quran API service (src/main.py): the /api/sync import      *)
(* pipeline and the read endpoints, over the two MongoDB collections       *)
(* "quransurah" and "quranayah" and the AlQuran Cloud upstream.            *)
(***************************************************************************)
EXTENDS Integers, Sequences, FiniteSets, TLC

\* ------------------------------------------------------------------------
\* Bounds of the model
\* ------------------------------------------------------------------------
MaxCalls == 3        \* sync requests served in one behaviour
MaxAyahs == 2        \* longest verse array the upstream returns
MaxAlign == 3        \* longest array given to the alignment on its own

Procs == {1, 2}      \* request workers of the hosting framework
Chapters == {1, 2}   \* surah numbers the upstream knows

NoneVal == <<"None">>  \* Python None / BSON null in a document field

\* ------------------------------------------------------------------------
\* State
\* ------------------------------------------------------------------------
VARIABLES
    db,           \* TRUE iff `db is not None` (database configured)
    remote,       \* content served by the AlQuran Cloud API
    quransurah,   \* collection db["quransurah"], in insertion order
    quranayah,    \* collection db["quranayah"], in insertion order
    pc,           \* per worker: position in the handler it runs
    frame,        \* per worker: local variables of the handler
    response,     \* per worker: the HTTP response of the finished handler
    trace,        \* per worker: bookkeeping of the running request
    calls,        \* number of sync requests received so far
    prev,         \* summary of the last sync request that finished
    align         \* inputs and output of the alignment taken on its own

vars == <<db, remote, quransurah, quranayah, pc, frame, response, trace,
          calls, prev, align>>

\* ------------------------------------------------------------------------
\* Sequence helpers
\* ------------------------------------------------------------------------
SeqsUpTo(S, n) == UNION {[1..k -> S] : k \in 0..n}

RECURSIVE SumSeq(_)
SumSeq(s) == IF s = <<>> THEN 0 ELSE Head(s) + SumSeq(Tail(s))

\* ------------------------------------------------------------------------
\* The upstream content (JSON contract of api.alquran.cloud/v1)
\* ------------------------------------------------------------------------
ArText(c, i) == IF (c + i) % 2 = 0 THEN <<"a", "b">> ELSE <<"b", ".">>
EnText(c, i) == IF i % 2 = 1 THEN <<"A", "b">> ELSE <<"a", "a">>
AudioOf(c, i) == <<"mp3", c, i>>

SurahInfo(c) ==
    [number |-> c, name |-> <<"s", c>>, englishName |-> <<"e", c>>,
     englishNameTranslation |-> <<"t", c>>,
     revelationType |-> IF c % 2 = 1 THEN "Meccan" ELSE "Medinan",
     numberOfAyahs |-> remote.len[c].ar]

SurahListData == [i \in 1..Len(remote.surahs) |-> SurahInfo(remote.surahs[i])]

ArAyahs(c) == [i \in 1..remote.len[c].ar |-> [numberInSurah |-> i, text |-> ArText(c, i)]]
EnAyahs(c) == [i \in 1..remote.len[c].en |-> [numberInSurah |-> i, text |-> EnText(c, i)]]
AudioAyahs(c) == [i \in 1..remote.len[c].au |->
                    [numberInSurah |-> i, text |-> ArText(c, i), audio |-> AudioOf(c, i)]]

\* chapter lists free of repeated numbers, in any order
SurahLists == {s \in SeqsUpTo(Chapters, Cardinality(Chapters)) :
                 \A i, j \in 1..Len(s) : i # j => s[i] # s[j]}

\* array lengths of the three editions of a chapter: a chapter has at least
\* one verse; its translation and audio arrays may be shorter or longer (the
\* shapes of the model make one of them as much shorter as the other is
\* long).  The remotes of the model give chapter 1 any shape and every next
\* chapter the previous one's shape turned round, so that the chapters differ
Shapes == {s \in [ar : 1..MaxAyahs, en : 0..MaxAyahs, au : 0..MaxAyahs] :
             s.en + s.au = MaxAyahs}
Rot(s) == [ar |-> MaxAyahs + 1 - s.ar, en |-> s.au, au |-> s.en]
RECURSIVE LenOf(_, _)
LenOf(s, c) == IF c <= 1 THEN s ELSE Rot(LenOf(s, c - 1))
Remotes == {[surahs |-> l, len |-> [c \in Chapters |-> LenOf(s, c)]] :
              l \in SurahLists, s \in Shapes}

\* an HTTP exchange: a response with a status code, or an exception raised
\* by requests.get (transport error)
Ok(data) == [status_code |-> 200, data |-> data]
Non2xx == [status_code |-> 500, data |-> <<>>]
Raised == [status_code |-> 0, data |-> <<>>]   \* no response: requests.get raised
NoResp == [status_code |-> 0, data |-> <<>>]   \* local not assigned yet
Outcomes(data) == {Ok(data), Non2xx, Raised}

\* ------------------------------------------------------------------------
\* Documents
\* ------------------------------------------------------------------------
SurahDoc(s) ==
    [number |-> s.number, name |-> s.name, englishName |-> s.englishName,
     englishNameTranslation |-> s.englishNameTranslation,
     revelationType |-> s.revelationType, numberOfAyahs |-> s.numberOfAyahs]

ToInsertSurahs(surahs) == [i \in 1..Len(surahs) |-> SurahDoc(surahs[i])]

\* dict.get(key) of a verse object, or of {} when the array has no element idx
\* variant: bound test off by one
GetText_offByOne(ayahs, idx) == IF idx < Len(ayahs) THEN ayahs[idx].text ELSE NoneVal

GetText(ayahs, idx) == IF idx <= Len(ayahs) THEN ayahs[idx].text ELSE NoneVal
GetAudio(ayahs, idx) == IF idx <= Len(ayahs) THEN ayahs[idx].audio ELSE NoneVal

\* lines 142-153: `for idx in range(len(ar_ayahs))`, appending one merged
\* document per position of the Arabic array (idx is 1-based here)
RECURSIVE AppendDocs(_, _, _, _, _, _)
AppendDocs(docs, idx, number, ar_ayahs, en_ayahs, audio_ayahs) ==
    IF idx > Len(ar_ayahs) THEN docs
    ELSE AppendDocs(Append(docs, [surah_number |-> number,
                                  ayah_number |-> ar_ayahs[idx].numberInSurah,
                                  text_ar |-> ar_ayahs[idx].text,
                                  text_en |-> GetText(en_ayahs, idx),
                                  audio_url |-> GetAudio(audio_ayahs, idx)]),
                    idx + 1, number, ar_ayahs, en_ayahs, audio_ayahs)

\* variant: the loop stops at the shortest of the three arrays
AyahDocs_shortest(number, ar_ayahs, en_ayahs, audio_ayahs) ==
    LET n == IF Len(en_ayahs) < Len(audio_ayahs) THEN Len(en_ayahs) ELSE Len(audio_ayahs)
    IN AppendDocs(<<>>, 1, number,
                  SubSeq(ar_ayahs, 1, IF n < Len(ar_ayahs) THEN n ELSE Len(ar_ayahs)),
                  en_ayahs, audio_ayahs)

AyahDocs(number, ar_ayahs, en_ayahs, audio_ayahs) ==
    AppendDocs(<<>>, 1, number, ar_ayahs, en_ayahs, audio_ayahs)

\* insert_many: the driver gives every document a fresh _id
WithSurahIds(docs, call) ==
    [i \in 1..Len(docs) |-> [id |-> <<call, i>>, doc |-> docs[i]]]

WithAyahIds(docs, call, base) ==
    [i \in 1..Len(docs) |-> [id |-> <<call, base + i>>, doc |-> docs[i]]]

\* ------------------------------------------------------------------------
\* Handler frames
\* ------------------------------------------------------------------------
NoFrame ==
    [op |-> "none", force |-> FALSE, existing_surahs |-> 0, existing_ayahs |-> 0,
     surahs |-> <<>>, to_insert_surahs |-> <<>>, total_ayahs |-> 0, s |-> 0,
     ar_resp |-> NoResp, en_resp |-> NoResp, audio_resp |-> NoResp, docs |-> <<>>,
     number |-> 0, q |-> <<>>, limit |-> 0]

NoTrace ==
    [call |-> 0, preSurah |-> <<>>, preAyah |-> <<>>, storeOps |-> 0, fetches |-> 0,
     listFailed |-> FALSE, enFailed |-> {}, otherFailed |-> FALSE, synced |-> {},
     raced |-> FALSE]

\* responses of the service: kind tells the shape of the body
NoBody == [surahs_imported |-> 0, ayahs_imported |-> 0, already_present |-> FALSE]
NoResponse == [status_code |-> 0, kind |-> "none", body |-> NoBody, data |-> <<>>]
HTTPException(code) == [NoResponse EXCEPT !.status_code = code, !.kind = "HTTPException"]
\* an exception no handler catches: the framework answers 500
Unhandled == [NoResponse EXCEPT !.status_code = 500, !.kind = "unhandled"]
SyncResponse(si, ai, ap) ==
    [NoResponse EXCEPT !.status_code = 200, !.kind = "SyncResponse",
        !.body = [surahs_imported |-> si, ayahs_imported |-> ai, already_present |-> ap]]
DataResponse(docs) == [NoResponse EXCEPT !.status_code = 200, !.kind = "data", !.data = docs]
NoPrev == [force |-> FALSE, fromEmpty |-> FALSE, status_code |-> 0, body |-> NoBody,
           partial |-> {}]

NoAlign == [number |-> 0, ar |-> <<>>, en |-> <<>>, audio |-> <<>>, docs |-> <<>>,
            done |-> FALSE]

Idle == \A p \in Procs : pc[p] = "idle"

\* ------------------------------------------------------------------------
\* Init: the state after process start, before any request
\* ------------------------------------------------------------------------
Init ==
    /\ db \in BOOLEAN
    /\ remote \in Remotes
    /\ quransurah = <<>>
    /\ quranayah = <<>>
    /\ pc = [p \in Procs |-> "idle"]
    /\ frame = [p \in Procs |-> NoFrame]
    /\ response = [p \in Procs |-> NoResponse]
    /\ trace = [p \in Procs |-> NoTrace]
    /\ calls = 0
    /\ prev = NoPrev
    /\ align = NoAlign

\* ------------------------------------------------------------------------
\* POST /api/sync  (sync_quran), one action per store operation or fetch
\* ------------------------------------------------------------------------

\* a step that changes only worker p's control state
Local(p, newpc, newframe, newtrace, newresp) ==
    /\ pc' = [pc EXCEPT ![p] = newpc]
    /\ frame' = [frame EXCEPT ![p] = newframe]
    /\ trace' = [trace EXCEPT ![p] = newtrace]
    /\ response' = [response EXCEPT ![p] = newresp]

\* `for s in surahs:` moves to the element after position k, or falls out of
\* the loop to the return statement (line 158)
LoopPc(f, k) == IF k < Len(f.surahs) THEN "fetch_ar" ELSE "return"
LoopFrame(f, k) ==
    IF k < Len(f.surahs)
    THEN [f EXCEPT !.s = k + 1, !.ar_resp = NoResp, !.en_resp = NoResp,
                   !.audio_resp = NoResp, !.docs = <<>>]
    ELSE f
LoopResp(f, k) ==
    IF k < Len(f.surahs) THEN NoResponse
    ELSE SyncResponse(Len(f.to_insert_surahs), f.total_ayahs, FALSE)

\* variant: no database check
sync_quran_unchecked(p, force) ==
    /\ pc[p] = "idle"
    /\ calls < MaxCalls
    /\ calls' = calls + 1
    /\ Local(p, "count_surahs", [NoFrame EXCEPT !.op = "sync", !.force = force],
             [NoTrace EXCEPT !.call = calls + 1, !.preSurah = quransurah,
                             !.preAyah = quranayah], NoResponse)
    /\ UNCHANGED <<db, remote, quransurah, quranayah, prev, align>>

\* lines 89-95: the request arrives; the database check comes first
sync_quran(p, force) ==
    /\ pc[p] = "idle"
    /\ calls < MaxCalls
    /\ calls' = calls + 1
    /\ LET f == [NoFrame EXCEPT !.op = "sync", !.force = force]
           t == [NoTrace EXCEPT !.call = calls + 1, !.preSurah = quransurah,
                                !.preAyah = quranayah]
       IN IF ~db
          THEN Local(p, "return", f, t, HTTPException(500))
          ELSE Local(p, "count_surahs", f, t, NoResponse)
    /\ UNCHANGED <<db, remote, quransurah, quranayah, prev, align>>

\* line 98
CountSurahs(p) ==
    /\ pc[p] = "count_surahs"
    /\ Local(p, "count_ayahs",
             [frame[p] EXCEPT !.existing_surahs = Len(quransurah)],
             [trace[p] EXCEPT !.storeOps = @ + 1], NoResponse)
    /\ UNCHANGED <<db, remote, quransurah, quranayah, calls, prev, align>>

\* variant: no "already present" test
CountAyahs_noGuard(p) ==
    /\ pc[p] = "count_ayahs"
    /\ LET f == [frame[p] EXCEPT !.existing_ayahs = Len(quranayah)]
           t == [trace[p] EXCEPT !.storeOps = @ + 1]
       IN IF f.force
          THEN Local(p, "delete_surahs", f, t, NoResponse)
          ELSE Local(p, "fetch_list", f, t, NoResponse)
    /\ UNCHANGED <<db, remote, quransurah, quranayah, calls, prev, align>>

\* variant: one non-empty collection is enough for "already present"
CountAyahs_orGuard(p) ==
    /\ pc[p] = "count_ayahs"
    /\ LET f == [frame[p] EXCEPT !.existing_ayahs = Len(quranayah)]
           t == [trace[p] EXCEPT !.storeOps = @ + 1]
       IN IF (f.existing_surahs > 0 \/ f.existing_ayahs > 0) /\ ~f.force
          THEN Local(p, "return", f, t, SyncResponse(0, 0, TRUE))
          ELSE IF f.force
          THEN Local(p, "delete_surahs", f, t, NoResponse)
          ELSE Local(p, "fetch_list", f, t, NoResponse)
    /\ UNCHANGED <<db, remote, quransurah, quranayah, calls, prev, align>>

\* variant: the collections are cleared whatever the force flag
CountAyahs_alwaysDelete(p) ==
    /\ pc[p] = "count_ayahs"
    /\ LET f == [frame[p] EXCEPT !.existing_ayahs = Len(quranayah)]
           t == [trace[p] EXCEPT !.storeOps = @ + 1]
       IN IF f.existing_surahs > 0 /\ f.existing_ayahs > 0 /\ ~f.force
          THEN Local(p, "return", f, t, SyncResponse(0, 0, TRUE))
          ELSE Local(p, "delete_surahs", f, t, NoResponse)
    /\ UNCHANGED <<db, remote, quransurah, quranayah, calls, prev, align>>

\* lines 99-104
CountAyahs(p) ==
    /\ pc[p] = "count_ayahs"
    /\ LET f == [frame[p] EXCEPT !.existing_ayahs = Len(quranayah)]
           t == [trace[p] EXCEPT !.storeOps = @ + 1]
       IN IF f.existing_surahs > 0 /\ f.existing_ayahs > 0 /\ ~f.force
          THEN Local(p, "return", f, t, SyncResponse(0, 0, TRUE))
          ELSE IF f.force
               THEN Local(p, "delete_surahs", f, t, NoResponse)
               ELSE Local(p, "fetch_list", f, t, NoResponse)
    /\ UNCHANGED <<db, remote, quransurah, quranayah, calls, prev, align>>

\* variant: the chapter collection is not cleared
DeleteSurahs_skipped(p) ==
    /\ pc[p] = "delete_surahs"
    /\ Local(p, "delete_ayahs", frame[p], [trace[p] EXCEPT !.storeOps = @ + 1], NoResponse)
    /\ UNCHANGED <<db, remote, quransurah, quranayah, calls, prev, align>>

\* line 105
DeleteSurahs(p) ==
    /\ pc[p] = "delete_surahs"
    /\ quransurah' = <<>>
    /\ Local(p, "delete_ayahs", frame[p], [trace[p] EXCEPT !.storeOps = @ + 1], NoResponse)
    /\ UNCHANGED <<db, remote, quranayah, calls, prev, align>>

\* variant: the verse collection is not cleared
DeleteAyahs_skipped(p) ==
    /\ pc[p] = "delete_ayahs"
    /\ Local(p, "fetch_list", frame[p], [trace[p] EXCEPT !.storeOps = @ + 1], NoResponse)
    /\ UNCHANGED <<db, remote, quransurah, quranayah, calls, prev, align>>

\* another worker runs a sync(force=true) that has not inserted anything yet
OtherForceNotInserted(p) ==
    \E o \in Procs \ {p} :
        /\ frame[o].op = "sync" /\ frame[o].force
        /\ pc[o] \in {"count_surahs", "count_ayahs", "delete_surahs", "delete_ayahs",
                      "fetch_list", "insert_surahs"}

\* line 106
DeleteAyahs(p) ==
    /\ pc[p] = "delete_ayahs"
    /\ quranayah' = <<>>
    /\ Local(p, "fetch_list", frame[p],
             [trace[p] EXCEPT !.storeOps = @ + 1, !.raced = OtherForceNotInserted(p)],
             NoResponse)
    /\ UNCHANGED <<db, remote, quransurah, calls, prev, align>>

\* lines 109-125: GET /surah, then build the chapter documents
FetchSurahList(p) ==
    /\ pc[p] = "fetch_list"
    /\ \E surah_resp \in Outcomes(SurahListData) :
         LET t == [trace[p] EXCEPT !.fetches = @ + 1,
                                   !.listFailed = (surah_resp \notin {Ok(SurahListData)})]
         IN IF surah_resp = Raised
            THEN Local(p, "return", frame[p], t, Unhandled)
            ELSE IF surah_resp.status_code # 200
            THEN Local(p, "return", frame[p], t, HTTPException(502))
            ELSE LET f == [frame[p] EXCEPT !.surahs = surah_resp.data,
                                           !.to_insert_surahs = ToInsertSurahs(surah_resp.data)]
                 IN IF f.to_insert_surahs # <<>>
                    THEN Local(p, "insert_surahs", f, t, NoResponse)
                    ELSE Local(p, LoopPc(f, 0), LoopFrame(f, 0), t, LoopResp(f, 0))
    /\ UNCHANGED <<db, remote, quransurah, quranayah, calls, prev, align>>

\* variant: only the first chapter document is inserted before the loop
InsertSurahs_firstOnly(p) ==
    /\ pc[p] = "insert_surahs"
    /\ quransurah' = quransurah \o
                       WithSurahIds(SubSeq(frame[p].to_insert_surahs, 1, 1), trace[p].call)
    /\ LET f == frame[p]
       IN Local(p, LoopPc(f, 0), LoopFrame(f, 0),
                [trace[p] EXCEPT !.storeOps = @ + 1], LoopResp(f, 0))
    /\ UNCHANGED <<db, remote, quranayah, calls, prev, align>>

\* variant: an upsert by chapter number instead of an insert
InsertSurahs_upsert(p) ==
    /\ pc[p] = "insert_surahs"
    /\ quransurah' =
          SelectSeq(quransurah,
                    LAMBDA r : \A i \in 1..Len(frame[p].to_insert_surahs) :
                                  frame[p].to_insert_surahs[i].number # r.doc.number)
            \o WithSurahIds(frame[p].to_insert_surahs, trace[p].call)
    /\ LET f == frame[p]
       IN Local(p, LoopPc(f, 0), LoopFrame(f, 0),
                [trace[p] EXCEPT !.storeOps = @ + 1], LoopResp(f, 0))
    /\ UNCHANGED <<db, remote, quranayah, calls, prev, align>>

\* lines 126-130
InsertSurahs(p) ==
    /\ pc[p] = "insert_surahs"
    /\ quransurah' = quransurah \o WithSurahIds(frame[p].to_insert_surahs, trace[p].call)
    /\ LET f == frame[p]
       IN Local(p, LoopPc(f, 0), LoopFrame(f, 0),
                [trace[p] EXCEPT !.storeOps = @ + 1], LoopResp(f, 0))
    /\ UNCHANGED <<db, remote, quranayah, calls, prev, align>>

Number(f) == f.surahs[f.s].number

Failed(out) == out.status_code # 200

\* bookkeeping of one per-chapter fetch: which translation fetches failed,
\* and whether any fetch of another edition did
Note(t, number, edition, out) ==
    [t EXCEPT !.fetches = @ + 1,
              !.enFailed = IF Failed(out) /\ edition = "en" THEN @ \cup {number} ELSE @,
              !.otherFailed = @ \/ (Failed(out) /\ edition # "en")]

\* line 133
FetchAr(p) ==
    /\ pc[p] = "fetch_ar"
    /\ \E ar_resp \in Outcomes(ArAyahs(Number(frame[p]))) :
         LET t == Note(trace[p], Number(frame[p]), "ar", ar_resp)
         IN IF ar_resp = Raised
            THEN Local(p, "return", frame[p], t, Unhandled)
            ELSE Local(p, "fetch_en", [frame[p] EXCEPT !.ar_resp = ar_resp], t, NoResponse)
    /\ UNCHANGED <<db, remote, quransurah, quranayah, calls, prev, align>>

\* line 134
FetchEn(p) ==
    /\ pc[p] = "fetch_en"
    /\ \E en_resp \in Outcomes(EnAyahs(Number(frame[p]))) :
         LET t == Note(trace[p], Number(frame[p]), "en", en_resp)
         IN IF en_resp = Raised
            THEN Local(p, "return", frame[p], t, Unhandled)
            ELSE Local(p, "fetch_audio", [frame[p] EXCEPT !.en_resp = en_resp], t, NoResponse)
    /\ UNCHANGED <<db, remote, quransurah, quranayah, calls, prev, align>>

\* lines 135-154: the third fetch, the status test and the alignment
FetchAudio(p) ==
    /\ pc[p] = "fetch_audio"
    /\ \E audio_resp \in Outcomes(AudioAyahs(Number(frame[p]))) :
         LET t == Note(trace[p], Number(frame[p]), "audio", audio_resp)
             f == [frame[p] EXCEPT !.audio_resp = audio_resp]
         IN IF audio_resp = Raised
            THEN Local(p, "return", frame[p], t, Unhandled)
            ELSE IF ~(f.ar_resp.status_code = 200 /\ f.en_resp.status_code = 200
                      /\ f.audio_resp.status_code = 200)
            THEN Local(p, LoopPc(f, f.s), LoopFrame(f, f.s), t, LoopResp(f, f.s))
            ELSE LET g == [f EXCEPT !.docs = AyahDocs(Number(f), f.ar_resp.data,
                                                      f.en_resp.data, f.audio_resp.data)]
                     u == [t EXCEPT !.synced = @ \cup {Number(f)}]
                 IN IF g.docs # <<>>
                    THEN Local(p, "insert_ayahs", g, u, NoResponse)
                    ELSE Local(p, LoopPc(g, g.s), LoopFrame(g, g.s), u, LoopResp(g, g.s))
    /\ UNCHANGED <<db, remote, quransurah, quranayah, calls, prev, align>>

\* lines 155-156
InsertAyahs(p) ==
    /\ pc[p] = "insert_ayahs"
    /\ quranayah' = quranayah \o
                      WithAyahIds(frame[p].docs, trace[p].call, frame[p].total_ayahs)
    /\ LET f == [frame[p] EXCEPT !.total_ayahs = @ + Len(frame[p].docs)]
       IN Local(p, LoopPc(f, f.s), LoopFrame(f, f.s),
                [trace[p] EXCEPT !.storeOps = @ + 1], LoopResp(f, f.s))
    /\ UNCHANGED <<db, remote, quransurah, calls, prev, align>>

\* the chapters that the last import skipped while it stored verses of
\* others: set by a sync that imports, kept by one that answers "already
\* present", emptied by any other
Partial(f, t, r, before) ==
    IF r.kind = "SyncResponse" /\ r.body.already_present THEN before
    ELSE IF r.kind = "SyncResponse" /\ r.body.ayahs_imported > 0
    THEN {f.surahs[i].number : i \in 1..Len(f.surahs)} \ t.synced
    ELSE {}

\* the framework sends the response; the worker is free again
Return(p) ==
    /\ pc[p] = "return"
    /\ prev' = IF frame[p].op = "sync"
               THEN [force |-> frame[p].force,
                     fromEmpty |-> (trace[p].preSurah = <<>> /\ trace[p].preAyah = <<>>),
                     status_code |-> response[p].status_code,
                     body |-> response[p].body,
                     partial |-> Partial(frame[p], trace[p], response[p], prev.partial)]
               ELSE prev
    /\ Local(p, "idle", NoFrame, NoTrace, NoResponse)
    /\ UNCHANGED <<db, remote, quransurah, quranayah, calls, align>>

\* ------------------------------------------------------------------------
\* Read endpoints: one store query each
\* ------------------------------------------------------------------------
Numbers == Chapters \cup {999}          \* path parameter {number}
Patterns == {<<>>, <<"a">>, <<".">>}    \* query parameter q; <<>> is absent or ""
Limits == {-1, 0, 1, 2}                 \* query parameter limit; 0 is the default

Lower(ch) == IF ch = "A" THEN "a" ELSE ch

\* {"$regex": q, "$options": "i"}: an unanchored, case-insensitive search of
\* the pattern, in which "." stands for any character; null never matches
RegexMatch(q, text) ==
    /\ text # NoneVal
    /\ \E off \in 0..(Len(text) - Len(q)) :
         \A j \in 1..Len(q) : q[j] = "." \/ Lower(q[j]) = Lower(text[off + j])

\* the filter documents of the three queries, as predicates on a document
AllSurahs(d) == TRUE
\* variant: the filter is empty
SurahFilter_any(d, number) == TRUE

SurahFilter(d, number) == d.number = number
AyahFilter(d, number, q) ==
    IF q # <<>>
    THEN d.surah_number = number /\ (RegexMatch(q, d.text_ar) \/ RegexMatch(q, d.text_en))
    ELSE d.surah_number = number

\* cursor.sort(field, 1) with the projection {"_id": 0}: every order of the
\* found documents that is ascending in the key (ties in any order)
RECURSIVE Sorted(_, _, _)
Sorted(coll, found, key) ==
    IF found = {} THEN {<<>>}
    ELSE LET least == {i \in found : \A j \in found : key[i] <= key[j]}
         IN UNION {{<<coll[i].doc>> \o rest : rest \in Sorted(coll, found \ {i}, key)} :
                     i \in least}

SurahKey == [i \in 1..Len(quransurah) |-> quransurah[i].doc.number]
AyahKey == [i \in 1..Len(quranayah) |-> quranayah[i].doc.ayah_number]

\* variant: one document too many
Limit_offByOne(docs, n) == SubSeq(docs, 1, IF n + 1 < Len(docs) THEN n + 1 ELSE Len(docs))

\* cursor.limit(n)
Limit(docs, n) == SubSeq(docs, 1, IF n < Len(docs) THEN n ELSE Len(docs))

Query(p, op, number, q, limit) ==
    [NoFrame EXCEPT !.op = op, !.number = number, !.q = q, !.limit = limit]

\* lines 161-166
list_surahs(p) ==
    /\ pc[p] = "idle"
    /\ LET f == Query(p, "list_surahs", 0, <<>>, 0)
       IN IF ~db
          THEN Local(p, "return", f, NoTrace, HTTPException(500))
          ELSE \E surahs \in Sorted(quransurah,
                                  {i \in 1..Len(quransurah) : AllSurahs(quransurah[i].doc)},
                                  SurahKey) :
                 Local(p, "return", f, [NoTrace EXCEPT !.storeOps = 1], DataResponse(surahs))
    /\ UNCHANGED <<db, remote, quransurah, quranayah, calls, prev, align>>

\* lines 169-176
get_surah(p, number) ==
    /\ pc[p] = "idle"
    /\ LET f == Query(p, "get_surah", number, <<>>, 0)
           found == {i \in 1..Len(quransurah) : SurahFilter(quransurah[i].doc, number)}
       IN IF ~db
          THEN Local(p, "return", f, NoTrace, HTTPException(500))
          ELSE IF found = {}
          THEN Local(p, "return", f, [NoTrace EXCEPT !.storeOps = 1], HTTPException(404))
          ELSE LET first == CHOOSE i \in found : \A j \in found : i <= j
               IN Local(p, "return", f, [NoTrace EXCEPT !.storeOps = 1],
                        DataResponse(<<quransurah[first].doc>>))
    /\ UNCHANGED <<db, remote, quransurah, quranayah, calls, prev, align>>

\* lines 179-194
get_surah_ayahs(p, number, q, limit) ==
    /\ pc[p] = "idle"
    /\ LET f == Query(p, "get_surah_ayahs", number, q, limit)
           found == {i \in 1..Len(quranayah) : AyahFilter(quranayah[i].doc, number, q)}
       IN IF ~db
          THEN Local(p, "return", f, NoTrace, HTTPException(500))
          ELSE \E cursor \in Sorted(quranayah, found, AyahKey) :
                 LET ayahs == IF limit # 0 /\ limit > 0 THEN Limit(cursor, limit) ELSE cursor
                 IN Local(p, "return", f, [NoTrace EXCEPT !.storeOps = 1], DataResponse(ayahs))
    /\ UNCHANGED <<db, remote, quransurah, quranayah, calls, prev, align>>

SyncStep(p) ==
    \/ CountSurahs(p) \/ CountAyahs(p) \/ DeleteSurahs(p) \/ DeleteAyahs(p)
    \/ FetchSurahList(p) \/ InsertSurahs(p)
    \/ FetchAr(p) \/ FetchEn(p) \/ FetchAudio(p) \/ InsertAyahs(p)
    \/ Return(p)

\* requests are served one after another by one worker
SyncRequest == \E force \in BOOLEAN : Idle /\ sync_quran(1, force)
ListSurahsRequest == Idle /\ list_surahs(1)
GetSurahRequest == \E number \in Numbers : Idle /\ get_surah(1, number)
GetSurahAyahsRequest ==
    \E number \in Numbers, q \in Patterns, limit \in Limits :
        Idle /\ get_surah_ayahs(1, number, q, limit)

Next ==
    \/ SyncRequest
    \/ ListSurahsRequest
    \/ GetSurahRequest
    \/ GetSurahAyahsRequest
    \/ \E p \in Procs : SyncStep(p)

Spec == Init /\ [][Next]_vars

\* ------------------------------------------------------------------------
\* The same, with the worker process dying in the middle of a handler
\* (process crash, or an exception of the store driver)
\* ------------------------------------------------------------------------
Crash(p) ==
    /\ pc[p] \notin {"idle", "return"}
    /\ prev' = [force |-> frame[p].force,
                fromEmpty |-> (trace[p].preSurah = <<>> /\ trace[p].preAyah = <<>>),
                status_code |-> 0, body |-> NoBody,
                partial |-> IF frame[p].force THEN {} ELSE prev.partial]
    /\ Local(p, "idle", NoFrame, NoTrace, NoResponse)
    /\ UNCHANGED <<db, remote, quransurah, quranayah, calls, align>>

NextCrash == Next \/ \E p \in Procs : Crash(p)

SpecCrash == Init /\ [][NextCrash]_vars

\* ------------------------------------------------------------------------
\* Forced sync requests served by the workers of the framework at the same
\* time, one request per worker: the steps of the handlers interleave.  The
\* upstream serves complete first chapters (as many translated verses as
\* Arabic ones)
\* ------------------------------------------------------------------------
InitConc ==
    /\ db \in BOOLEAN
    /\ remote \in {r \in Remotes : r.len[1].ar = MaxAyahs /\ r.len[1].en = MaxAyahs}
    /\ quransurah = <<>>
    /\ quranayah = <<>>
    /\ pc = [p \in Procs |-> "idle"]
    /\ frame = [p \in Procs |-> NoFrame]
    /\ response = [p \in Procs |-> NoResponse]
    /\ trace = [p \in Procs |-> NoTrace]
    /\ calls = 0
    /\ prev = NoPrev
    /\ align = NoAlign

ForceSyncRequestAnyWorker ==
    \E p \in Procs : calls < Cardinality(Procs) /\ sync_quran(p, TRUE)

NextConc == ForceSyncRequestAnyWorker \/ \E p \in Procs : SyncStep(p)

SpecConc == InitConc /\ [][NextConc]_vars

\* ------------------------------------------------------------------------
\* The alignment of lines 138-153 applied to arbitrary arrays
\* ------------------------------------------------------------------------
Texts == {<<"a">>, <<"b">>}
ArItems == [numberInSurah : 1..2, text : Texts]
EnItems == [numberInSurah : {1}, text : Texts]
AudioItems == [numberInSurah : {1}, text : {<<"a">>}, audio : {<<"x">>, <<"y">>}]

InitAlign ==
    /\ db = TRUE
    /\ remote = [surahs |-> <<>>, len |-> [c \in Chapters |-> [ar |-> 0, en |-> 0, au |-> 0]]]
    /\ quransurah = <<>>
    /\ quranayah = <<>>
    /\ pc = [p \in Procs |-> "idle"]
    /\ frame = [p \in Procs |-> NoFrame]
    /\ response = [p \in Procs |-> NoResponse]
    /\ trace = [p \in Procs |-> NoTrace]
    /\ calls = 0
    /\ prev = NoPrev
    /\ align \in [number : {1}, ar : SeqsUpTo(ArItems, MaxAlign),
                   en : SeqsUpTo(EnItems, MaxAlign), audio : SeqsUpTo(AudioItems, MaxAlign),
                   docs : {<<>>}, done : {FALSE}]

Align ==
    /\ ~align.done
    /\ align' = [align EXCEPT !.done = TRUE,
                     !.docs = AyahDocs(align.number, align.ar, align.en, align.audio)]
    /\ UNCHANGED <<db, remote, quransurah, quranayah, pc, frame, response, trace,
                   calls, prev>>

NextAlign == Align

SpecAlign == InitAlign /\ [][NextAlign]_vars

\* ------------------------------------------------------------------------
\* Properties
\* ------------------------------------------------------------------------
SyncDone(p) == pc[p] = "return" /\ frame[p].op = "sync"
Reported(p) == SyncDone(p) /\ response[p].kind = "SyncResponse"
Imported(p) == Reported(p) /\ ~response[p].body.already_present

SurahNumbers == [i \in 1..Len(quransurah) |-> quransurah[i].doc.number]
AyahsOf(c) == {i \in 1..Len(quranayah) : quranayah[i].doc.surah_number = c}
ListNumbers(f) == {f.surahs[i].number : i \in 1..Len(f.surahs)}

\* what an import into an empty store leaves, given which chapters it synced
FreshSurahs(call) == WithSurahIds(ToInsertSurahs(SurahListData), call)

RECURSIVE FreshAyahs(_, _, _, _)
FreshAyahs(acc, list, synced, call) ==
    IF list = <<>> THEN acc
    ELSE LET c == Head(list)
             docs == AyahDocs(c, ArAyahs(c), EnAyahs(c), AudioAyahs(c))
         IN FreshAyahs(IF c \in synced THEN acc \o WithAyahIds(docs, call, Len(acc)) ELSE acc,
                       Tail(list), synced, call)

\* C1: two sync(force=false) calls in a row from an empty store: the second
\* returns alreadyPresent=true with zero counts and leaves the store as the
\* first call left it (stated for two calls that both return a report, the
\* first one having inserted at least one chapter).
C1_Idempotence ==
    (/\ Reported(1) /\ ~frame[1].force
     /\ prev.status_code = 200 /\ ~prev.force /\ prev.fromEmpty
     /\ prev.body.surahs_imported > 0)
    => /\ response[1] = SyncResponse(0, 0, TRUE)
       /\ quransurah = trace[1].preSurah
       /\ quranayah = trace[1].preAyah

\* C2: a sync(force=true) that returns its report on a non-empty prior store
\* leaves exactly the records of a fresh import of the same upstream
\* responses: none from before the call, none twice.
C2_ForceSemantics ==
    \A p \in Procs :
        (/\ Reported(p) /\ frame[p].force
         /\ (trace[p].preSurah # <<>> \/ trace[p].preAyah # <<>>))
        => /\ quransurah = FreshSurahs(trace[p].call)
           /\ quranayah = FreshAyahs(<<>>, remote.surahs, trace[p].synced, trace[p].call)
           /\ \A i \in 1..Len(quransurah) : quransurah[i].id[1] = trace[p].call
           /\ \A i \in 1..Len(quranayah) : quranayah[i].id[1] = trace[p].call
           /\ \A i, j \in 1..Len(quransurah) :
                i # j => quransurah[i].doc # quransurah[j].doc
           /\ \A i, j \in 1..Len(quranayah) :
                i # j => quranayah[i].doc # quranayah[j].doc

C2_Witness ==
    /\ Reported(1) /\ frame[1].force
    /\ trace[1].preSurah # <<>> /\ trace[1].preAyah # <<>>
    /\ quranayah # <<>> /\ Len(quransurah) = 2

\* C3: no two Chapter records in the store have the same number.
C3_ChapterNumberUnique ==
    \A i, j \in 1..Len(quransurah) : i # j => SurahNumbers[i] # SurahNumbers[j]

\* C4: when the translation fetch fails for exactly one chapter of an import
\* and no other fetch fails, the sync reports as versesImported the sum of the
\* Arabic verse counts of the other chapters, the failed chapter has no Verse
\* record and its Chapter record is in the store.
C4_PartialFailure ==
    \A p \in Procs :
        (/\ SyncDone(p) /\ ~trace[p].listFailed /\ ~trace[p].otherFailed
         /\ Cardinality(trace[p].enFailed) = 1)
        => LET c == CHOOSE c \in trace[p].enFailed : TRUE
               others == SelectSeq(remote.surahs, LAMBDA d : d # c)
           IN /\ response[p].kind = "SyncResponse"
              /\ response[p].body.ayahs_imported =
                    SumSeq([i \in 1..Len(others) |-> Len(ArAyahs(others[i]))])
              /\ AyahsOf(c) = {}
              /\ \E i \in 1..Len(quransurah) : SurahNumbers[i] = c

\* C5: when a per-chapter fetch fails (non-2xx or transport error), sync still
\* goes through every chapter of the list and returns a SyncReport.
C5_FailureAbsorbed ==
    \A p \in Procs :
        (SyncDone(p) /\ (trace[p].enFailed # {} \/ trace[p].otherFailed))
        => /\ response[p].kind = "SyncResponse"
           /\ frame[p].s = Len(frame[p].surahs)

\* C6: when the chapter-list fetch fails (non-2xx or transport error), sync
\* answers 502 without a report, issues no other fetch and inserts nothing.
C6_ListFetchFatal ==
    \A p \in Procs :
        (SyncDone(p) /\ trace[p].listFailed)
        => /\ response[p] = HTTPException(502)
           /\ trace[p].fetches = 1
           /\ \A i \in 1..Len(quransurah) : quransurah[i].id[1] # trace[p].call
           /\ \A i \in 1..Len(quranayah) : quranayah[i].id[1] # trace[p].call

\* C7: after a completed importing sync, every chapter whose three fetches
\* succeeded has as many Verse records as its Arabic array has elements,
\* whatever the lengths of the translation and audio arrays.
C7_VerseCount ==
    \A p \in Procs :
        Imported(p) =>
            \A c \in trace[p].synced : Cardinality(AyahsOf(c)) = Len(ArAyahs(c))

C7_Witness ==
    /\ Imported(1)
    /\ \E c \in trace[1].synced :
         /\ remote.len[c].en < remote.len[c].ar
         /\ remote.len[c].au > remote.len[c].ar
         /\ Cardinality(AyahsOf(c)) = remote.len[c].ar

\* C8: the alignment gives one record per element of the original array;
\* record i takes number and text from original[i], the translation text from
\* translation[i] and the audio url from audio[i] when those exist, else None.
C8_Alignment ==
    align.done =>
        /\ Len(align.docs) = Len(align.ar)
        /\ \A i \in 1..Len(align.ar) :
             /\ align.docs[i].surah_number = align.number
             /\ align.docs[i].ayah_number = align.ar[i].numberInSurah
             /\ align.docs[i].text_ar = align.ar[i].text
             /\ align.docs[i].text_en =
                  IF i <= Len(align.en) THEN align.en[i].text ELSE NoneVal
             /\ align.docs[i].audio_url =
                  IF i <= Len(align.audio) THEN align.audio[i].audio ELSE NoneVal

C8_Witness ==
    /\ align.done
    /\ Len(align.ar) = 3 /\ Len(align.en) = 2 /\ Len(align.audio) = 3
    /\ Len(align.docs) = 3
    /\ align.docs[2].text_en # NoneVal /\ align.docs[2].audio_url # NoneVal
    /\ align.docs[3].text_en = NoneVal /\ align.docs[3].audio_url # NoneVal

\* C9: no two Verse records share the pair (chapterNumber, verseNumber), also
\* after a sync that stopped part-way and the sync calls that follow it.
C9_VerseIdentityUnique ==
    \A i, j \in 1..Len(quranayah) :
        i # j => <<quranayah[i].doc.surah_number, quranayah[i].doc.ayah_number>>
                   # <<quranayah[j].doc.surah_number, quranayah[j].doc.ayah_number>>

\* C10: with the store handle absent, sync, listChapters, getChapter and
\* listVerses answer 500 without any store operation or upstream fetch.
C10_StoreCheckFirst ==
    \A p \in Procs :
        ~db => /\ trace[p].storeOps = 0
               /\ trace[p].fetches = 0
               /\ pc[p] \in {"idle", "return"}
               /\ pc[p] = "return" => response[p] = HTTPException(500)

C10_Witness ==
    ~db /\ pc[1] = "return" /\ frame[1].op = "sync" /\ response[1].status_code = 500

\* a is an initial part of b: b keeps every record of a, unaltered, in place
IsPrefix(a, b) == Len(a) <= Len(b) /\ SubSeq(b, 1, Len(a)) = a

Deleting(p) == pc[p] \in {"delete_surahs", "delete_ayahs"} /\ frame[p].force

\* C11: records are removed or altered only by the delete steps of a
\* sync(force=true); every other step of sync only adds records, and the three
\* read endpoints leave both collections unchanged.
C11_OnlyForceDeletes ==
    [][/\ (~ \E p \in Procs : Deleting(p))
            => IsPrefix(quransurah, quransurah') /\ IsPrefix(quranayah, quranayah')
       /\ (\E p \in Procs : frame'[p].op \in {"list_surahs", "get_surah", "get_surah_ayahs"})
            => quransurah' = quransurah /\ quranayah' = quranayah]_vars

C11_Witness ==
    /\ SyncDone(1) /\ ~frame[1].force
    /\ trace[1].preSurah # <<>>
    /\ Len(quransurah) > Len(trace[1].preSurah)
    /\ IsPrefix(trace[1].preSurah, quransurah)

QueryDone(p, op) == db /\ pc[p] = "return" /\ frame[p].op = op

\* the positions of the Verse records that a listVerses request matches
Matching(f) == {i \in 1..Len(quranayah) : AyahFilter(quranayah[i].doc, f.number, f.q)}

Min(a, b) == IF a < b THEN a ELSE b

\* C12: listVerses returns the matching Verse records in ascending verse
\* number: the first min(n, number of matches) of them for a positive limit
\* n, all of them for a zero, negative or absent limit.
C12_LimitCorrect ==
    \A p \in Procs :
        QueryDone(p, "get_surah_ayahs") =>
            LET data == response[p].data
                n == frame[p].limit
                M == Matching(frame[p])
            IN /\ response[p].status_code = 200
               /\ Len(data) = IF n > 0 THEN Min(n, Cardinality(M)) ELSE Cardinality(M)
               /\ \A k \in 1..Len(data) : \E i \in M : quranayah[i].doc = data[k]
               /\ \A k, l \in 1..Len(data) :
                    k < l => data[k].ayah_number < data[l].ayah_number
               /\ \A i \in M :
                    (\A k \in 1..Len(data) : data[k] # quranayah[i].doc)
                      => \A k \in 1..Len(data) :
                            data[k].ayah_number <= quranayah[i].doc.ayah_number

C12_Witness ==
    /\ QueryDone(1, "get_surah_ayahs")
    /\ frame[1].limit = 1
    /\ Cardinality(Matching(frame[1])) = 2
    /\ Len(response[1].data) = 1
    /\ response[1].data[1].ayah_number = 1

\* q occurs in text as a literal substring, letter case ignored
Contains(q, text) ==
    /\ text # NoneVal
    /\ \E off \in 0..(Len(text) - Len(q)) :
         \A j \in 1..Len(q) : Lower(q[j]) = Lower(text[off + j])

\* C13: listVerses with a filter string q (and no limit) returns exactly the
\* Verse records of the chapter whose original or translation text contains q
\* as a literal substring, case-insensitively.
C13_FilterLiteral ==
    \A p \in Procs :
        (QueryDone(p, "get_surah_ayahs") /\ frame[p].q # <<>> /\ frame[p].limit <= 0)
        => {response[p].data[k] : k \in 1..Len(response[p].data)}
             = {quranayah[i].doc : i \in
                   {i \in 1..Len(quranayah) :
                      /\ quranayah[i].doc.surah_number = frame[p].number
                      /\ \/ Contains(frame[p].q, quranayah[i].doc.text_ar)
                         \/ Contains(frame[p].q, quranayah[i].doc.text_en)}}

\* C14: getChapter answers 404 exactly when no Chapter record has the
\* requested number, and otherwise returns a record with that number.
C14_NotFound ==
    \A p \in Procs :
        QueryDone(p, "get_surah") =>
            LET present == \E i \in 1..Len(quransurah) : SurahNumbers[i] = frame[p].number
            IN /\ (response[p] = HTTPException(404)) <=> ~present
               /\ present => /\ response[p].status_code = 200
                             /\ Len(response[p].data) = 1
                             /\ response[p].data[1].number = frame[p].number
                             /\ \E i \in 1..Len(quransurah) :
                                  quransurah[i].doc = response[p].data[1]

C14_Witness ==
    /\ QueryDone(1, "get_surah")
    /\ frame[1].number = 2
    /\ Len(quransurah) = 2 /\ SurahNumbers[1] = 1
    /\ response[1].status_code = 200
    /\ response[1].data[1].number = 2

ForceRunning == \E p \in Procs : frame[p].op = "sync" /\ frame[p].force

\* C15: after an import that skipped a chapter while it stored verses of
\* another, and as long as no sync(force=true) is run, every sync(force=false)
\* answers alreadyPresent=true right after the two counts and the skipped
\* chapter has no Verse record.
C15_NoRetry ==
    (prev.partial # {} /\ ~ForceRunning)
    => /\ \A c \in prev.partial : AyahsOf(c) = {}
       /\ \A p \in Procs :
            frame[p].op = "sync"
              => /\ pc[p] \in {"count_surahs", "count_ayahs", "return"}
                 /\ pc[p] = "return" => response[p] = SyncResponse(0, 0, TRUE)

C15_Witness ==
    /\ prev.partial # {} /\ quranayah # <<>>
    /\ SyncDone(1) /\ ~frame[1].force
    /\ response[1].body.already_present

\* C16: two concurrent sync(force=true) calls, each doing its deletes before
\* the other does its inserts and every fetch succeeding, leave every Chapter
\* and Verse record twice: more records than one fresh import produces.
C16_ConcurrentDuplicates ==
    (\A p \in Procs :
        /\ Reported(p) /\ frame[p].force /\ trace[p].raced
        /\ trace[p].synced = ListNumbers(frame[p]))
    => /\ Len(quransurah) = 2 * Len(remote.surahs)
       /\ Len(quranayah) = 2 * Len(FreshAyahs(<<>>, remote.surahs, Chapters, 0))
       /\ \A i \in 1..Len(quransurah) :
            \E j \in 1..Len(quransurah) : j # i /\ quransurah[j].doc = quransurah[i].doc
       /\ \A i \in 1..Len(quranayah) :
            \E j \in 1..Len(quranayah) : j # i /\ quranayah[j].doc = quranayah[i].doc

C16_Witness ==
    /\ \A p \in Procs :
         /\ Reported(p) /\ frame[p].force /\ trace[p].raced
         /\ trace[p].synced = ListNumbers(frame[p])
    /\ Len(quransurah) > Len(remote.surahs)
    /\ Len(quranayah) > Len(FreshAyahs(<<>>, remote.surahs, Chapters, 0))

\* the records in the store that the call served by worker p inserted
MySurahs(p) == SelectSeq(quransurah, LAMBDA r : r.id[1] = trace[p].call)
MyAyahs(p) == SelectSeq(quranayah, LAMBDA r : r.id[1] = trace[p].call)

\* the position in the fetched chapter list of the chapter with number c
PosOf(f, c) == CHOOSE i \in 1..Len(f.surahs) : f.surahs[i].number = c

\* the per-chapter fetches that the call has issued when it is at pc
FetchesAt(f, at) ==
    1 + 3 * (f.s - 1) + (CASE at = "fetch_ar" -> 0 [] at = "fetch_en" -> 1
                           [] at = "fetch_audio" -> 2 [] OTHER -> 3)

\* C17: within one importing sync all Chapter records are inserted in one
\* batch before the first per-chapter fetch, the chapters are then handled one
\* at a time in the order of the fetched list (chapter k's verses are in the
\* store before any fetch for chapter k+1), and every Verse record of the sync
\* has a Chapter record with its chapter number that the same sync inserted.
C17_ImportOrder ==
    \A p \in Procs :
      frame[p].op = "sync" =>
        LET f == frame[p]
            t == trace[p]
            mine == MyAyahs(p)
        IN /\ pc[p] \in {"count_surahs", "count_ayahs", "delete_surahs", "delete_ayahs",
                         "fetch_list", "insert_surahs"}
                => /\ MySurahs(p) = <<>> /\ mine = <<>>
                   /\ t.fetches = (IF pc[p] = "insert_surahs" THEN 1 ELSE 0)
           /\ pc[p] \in {"fetch_ar", "fetch_en", "fetch_audio", "insert_ayahs"}
                => /\ MySurahs(p) = WithSurahIds(ToInsertSurahs(f.surahs), t.call)
                   /\ Len(MySurahs(p)) = Len(f.surahs)
                   /\ f.s \in 1..Len(f.surahs)
                   /\ t.fetches = FetchesAt(f, pc[p])
                   /\ \A i \in 1..Len(mine) : PosOf(f, mine[i].doc.surah_number) < f.s
                   /\ \A k \in 1..(f.s - 1) :
                        f.surahs[k].number \in t.synced
                          => Cardinality({i \in 1..Len(mine) :
                                           mine[i].doc.surah_number = f.surahs[k].number})
                               = Len(ArAyahs(f.surahs[k].number))
           /\ \A i, j \in 1..Len(mine) :
                i < j => PosOf(f, mine[i].doc.surah_number) <= PosOf(f, mine[j].doc.surah_number)
           /\ \A i \in 1..Len(mine) :
                \E j \in 1..Len(MySurahs(p)) :
                    MySurahs(p)[j].doc.number = mine[i].doc.surah_number

C17_Witness ==
    /\ pc[1] = "fetch_ar" /\ frame[1].op = "sync" /\ frame[1].s = 2
    /\ MyAyahs(1) # <<>>
    /\ Len(MySurahs(1)) = 2

\* C18: a sync that performs an import (it inserted records) returns a report
\* with alreadyPresent=false, chaptersImported = the number of Chapter records
\* it inserted = the length of the fetched list, versesImported = the number
\* of Verse records it inserted; from an empty store these are the final sizes
\* of the two collections.
C18_ReportAccuracy ==
    \A p \in Procs :
        (SyncDone(p) /\ (MySurahs(p) # <<>> \/ MyAyahs(p) # <<>>))
        => /\ response[p].kind = "SyncResponse"
           /\ ~response[p].body.already_present
           /\ response[p].body.surahs_imported = Len(MySurahs(p))
           /\ response[p].body.surahs_imported = Len(frame[p].surahs)
           /\ response[p].body.ayahs_imported = Len(MyAyahs(p))
           /\ (trace[p].preSurah = <<>> /\ trace[p].preAyah = <<>>)
                => /\ response[p].body.surahs_imported = Len(quransurah)
                   /\ response[p].body.ayahs_imported = Len(quranayah)

\* C19: a sync whose chapter-list fetch fails ends, with force=true, with both
\* collections empty whatever they held before (the deletes are not rolled
\* back) and, with force=false, with the store exactly as it was.
C19_NoRollback ==
    \A p \in Procs :
        (SyncDone(p) /\ trace[p].listFailed)
        => /\ response[p].kind # "SyncResponse"
           /\ IF frame[p].force
              THEN quransurah = <<>> /\ quranayah = <<>>
              ELSE quransurah = trace[p].preSurah /\ quranayah = trace[p].preAyah

C19_Witness ==
    /\ SyncDone(1) /\ trace[1].listFailed /\ frame[1].force
    /\ trace[1].preSurah # <<>> /\ trace[1].preAyah # <<>>
    /\ quransurah = <<>> /\ quranayah = <<>>

====
